---- MODULE Spec2Model ----
(***************************************************************************)
(* Model of the data-acquisition core of stock_monitor.py: the StockData   *)
(* store (data, price_history, time_history, _lock), the background        *)
(* fetch_data loop with the per-instrument retry loop of _fetch_stock_info, *)
(* and consumer threads calling get_data / get_all_data /                  *)
(* get_price_history.                                                      *)
(*                                                                         *)
(* Strings of the source are kept as tagged values: the formatted price    *)
(* f"{n:,}<won>" is [kind |-> "won", n |-> n]; the formatted change        *)
(* f"{c:+,}<won> ({p:+.2f}%)" is [kind |-> "delta", abs |-> c, pct |-> h]  *)
(* with h the percentage in hundredths, as the two printed decimals.       *)
(***************************************************************************)
EXTENDS Integers, Sequences, FiniteSets, TLC

\* ---------------------------------------------------------------- bounds
MaxPrice == 2        \* closing prices are drawn from 0..MaxPrice
MaxSessions == 2     \* a provider result holds at most MaxSessions sessions
MaxAppends == 3      \* direct calls of _add_to_history in a run

\* ------------------------------------------------------ program constants
MAX_RETRY_ATTEMPTS == 3
UPDATE_INTERVAL_SECONDS == 5
HISTORY_MAXLEN == 100
NONE == "None"       \* Python's None in the last_update field
NOW == "now"         \* a value of datetime.now(): opaque, never None

\* ------------------------------------------------------------- the config
Names == {"A", "B"}                    \* Config.TICKERS keys
Unknown == "X"                         \* a name that is not configured
Orders == {<<"A", "B">>, <<"B", "A">>} \* iteration orders of the tickers dict

Fetcher == "fetcher"
Readers == {"r1"}                      \* the consumer threads
Threads == {Fetcher} \cup Readers
FREE == "free"

VARIABLES
    config,         \* self.config: MAX_RETRY_ATTEMPTS and UPDATE_INTERVAL_SECONDS
    stop,           \* the process: "running", "signalled" (SIGINT delivered, the
                    \* handler not yet run) or "exited"
    hist_args,      \* _add_to_history: name and price of the call in progress,
                    \* and where it returns to (NoArgs when there is none)
    appended,       \* history variable: per instrument, every price ever
                    \* appended to its history, oldest first
    tickers,        \* self.tickers, as the sequence its items() iterate in
    data,           \* self.data : name -> snapshot
    price_history,  \* self.price_history : name -> deque(maxlen=100)
    time_history,   \* self.time_history : name -> deque(maxlen=100)
    lock,           \* self._lock : FREE or the thread holding it
    pc,             \* position of every thread
    idx,            \* fetch_data: instruments of this cycle already processed
    attempt,        \* _fetch_stock_info: loop variable of the retry loop
    df,             \* _fetch_stock_info: the frame the provider returned, while
                    \* it is live (from a return of a snapshot to its store)
    result,         \* fetch_data: result, <<>> for None, <<snapshot>> for a dict
    rop,            \* reader: the read operation in progress
    ret,            \* reader: the copy it is about to return (NoRet otherwise)
    log,            \* history variable: the events of the current run of
                    \* _fetch_stock_info (provider outcomes and retry sleeps)
    seen,           \* history variable: per instrument, what all its provider
                    \* calls so far did ("none" before the first call)
    last_write      \* history variable: the snapshot handed to the latest write

vars == <<config, stop, hist_args, appended, tickers, data, price_history,
          time_history, lock, pc, idx, attempt, df, result, rop, ret, log, seen,
          last_write>>

\* ------------------------------------------------------------- snapshots
Absent(k) == [kind |-> k, abs |-> 0, pct |-> 0]
Text(k) == [kind |-> k, n |-> 0]

\* mutant of InitSnapshot: the "loading" entry already carries a price value
InitSnapshot_Priced ==
    [price |-> Text("loading"), change |-> Absent("blank"), color |-> "black",
     last_update |-> NOW, price_value |-> 1]

\* StockData.__init__: the "loading" entry
InitSnapshot ==
    [price |-> Text("loading"), change |-> Absent("blank"), color |-> "black",
     last_update |-> NONE, price_value |-> 0]

\* fetch_data: the entry written when _fetch_stock_info returned None
NoDataSnapshot ==
    [price |-> Text("no_data"), change |-> Absent("closed"), color |-> "gray",
     last_update |-> NONE, price_value |-> 0]

Abs(x) == IF x < 0 THEN -x ELSE x

\* (change / previous_close) * 100 as printed by {:+.2f}: hundredths of a
\* percent, rounded to the nearest, an exact tie to the even one (a tie that
\* is not exact in binary floating point goes as the float falls; a previous
\* close of 32 or more is needed for any tie)
ChangePercent(change, previous_close) ==
    LET num == Abs(change) * 10000
        den == Abs(previous_close)
        q == num \div den
        r == num % den
        h == IF 2 * r > den \/ (2 * r = den /\ q % 2 = 1) THEN q + 1 ELSE q
    IN  IF (change < 0) = (previous_close < 0) THEN h ELSE -h

ColorOf(change) ==
    IF change > 0 THEN "red" ELSE IF change < 0 THEN "blue" ELSE "black"

\* mutant of FreshSnapshot: the change is taken the wrong way round
FreshSnapshot_Swapped(frame, t) ==
    LET previous_close == frame[Len(frame) - 1]
        current_price == frame[Len(frame)]
        change == previous_close - current_price
    IN  [price |-> [kind |-> "won", n |-> current_price],
         change |-> [kind |-> "delta", abs |-> change,
                     pct |-> ChangePercent(change, previous_close)],
         color |-> ColorOf(change),
         last_update |-> t,
         price_value |-> current_price]

\* _fetch_stock_info, branch len(df) >= 2
FreshSnapshot(frame, t) ==
    LET previous_close == frame[Len(frame) - 1]
        current_price == frame[Len(frame)]
        change == current_price - previous_close
    IN  [price |-> [kind |-> "won", n |-> current_price],
         change |-> [kind |-> "delta", abs |-> change,
                     pct |-> ChangePercent(change, previous_close)],
         color |-> ColorOf(change),
         last_update |-> t,
         price_value |-> current_price]

\* mutant of SingleSnapshot: a lone session is colored as an unchanged price
SingleSnapshot_Black(frame, t) ==
    [price |-> [kind |-> "won", n |-> frame[Len(frame)]],
     change |-> Absent("no_prev"), color |-> "black",
     last_update |-> t, price_value |-> frame[Len(frame)]]

\* _fetch_stock_info, branch len(df) == 1
SingleSnapshot(frame, t) ==
    [price |-> [kind |-> "won", n |-> frame[Len(frame)]],
     change |-> Absent("no_prev"), color |-> "gray",
     last_update |-> t, price_value |-> frame[Len(frame)]]

\* ------------------------------------------------------------ the provider
RECURSIVE SeqsUpTo(_)
SeqsUpTo(n) ==
    IF n = 0 THEN {<<>>}
    ELSE LET S == SeqsUpTo(n - 1)
         IN  S \cup {Append(s, p) : s \in {x \in S : Len(x) = n - 1}, p \in 0..MaxPrice}

\* what stock.get_market_ohlcv_by_date returns: the closes of the sessions
ProviderResults == SeqsUpTo(MaxSessions)

\* what one attempt of the retry loop does with a returned frame
Classify(frame) ==
    IF Len(frame) >= 2
    THEN IF frame[Len(frame) - 1] = 0 THEN "two0" ELSE "two"
    ELSE IF Len(frame) = 1 THEN "one" ELSE "empty"

\* ---------------------------------------------------------------- helpers
\* the summary of an instrument's provider calls after one more of kind k:
\* "error" while every call raised, "two" while every call returned two or
\* more sessions with a non-zero previous close, "mixed" otherwise
Seen(old, k) == IF k \in {"error", "two"} /\ old \in {"none", k} THEN k ELSE "mixed"

\* mutant of DequeAppend: a deque without maxlen, nothing is evicted
DequeAppend_NoEvict(q, x) == Append(q, x)

\* deque(maxlen=HISTORY_MAXLEN).append
DequeAppend(q, x) ==
    IF Len(q) < HISTORY_MAXLEN THEN Append(q, x) ELSE Append(Tail(q), x)

Cur == tickers[idx + 1]

NoOp == [op |-> "none", name |-> Unknown]

NoArgs == [name |-> Unknown, price |-> 0, back |-> "none"]

\* Config(): the defaults of the dataclass
DefaultConfig ==
    [MAX_RETRY_ATTEMPTS |-> MAX_RETRY_ATTEMPTS,
     UPDATE_INTERVAL_SECONDS |-> UPDATE_INTERVAL_SECONDS]

NoRet == [op |-> "none", name |-> Unknown, one |-> <<>>, all |-> <<>>,
          times |-> <<>>, prices |-> <<>>]

ReadOps == {"get_data", "get_all_data", "get_price_history"}

\* ------------------------------------------------------------------- Init
Init ==
    /\ config = DefaultConfig
    /\ stop = "running"
    /\ hist_args = NoArgs
    /\ appended = [n \in Names |-> <<>>]
    /\ tickers \in Orders
    /\ data = [n \in Names |-> InitSnapshot]
    /\ price_history = [n \in Names |-> <<>>]
    /\ time_history = [n \in Names |-> <<>>]
    /\ lock = FREE
    /\ pc = [t \in Threads |-> IF t = Fetcher THEN "for" ELSE "idle"]
    /\ idx = 0
    /\ attempt = 0
    /\ df = <<>>
    /\ result = <<>>
    /\ rop = [r \in Readers |-> NoOp]
    /\ ret = [r \in Readers |-> NoRet]
    /\ log = <<>>
    /\ seen = [n \in Names |-> "none"]
    /\ last_write = [n \in Names |-> InitSnapshot]

\* ------------------------------------------------------ the store's writes
\* mutant of StoreSnapshot: the entry is updated field by field and the write
\* stops after the color
StoreSnapshot_Torn(d, name, snap) ==
    [d EXCEPT ![name] = [@ EXCEPT !.color = snap.color]]

\* fetch_data: self.data[name] = ...
StoreSnapshot(d, name, snap) == [d EXCEPT ![name] = snap]

\* mutant of CopyOne: an unknown name gets the "loading" entry, as a
\* defaultdict would give
CopyOne_Default(d, name) ==
    IF name \in DOMAIN d THEN <<d[name]>> ELSE <<InitSnapshot>>

\* get_data: self.data.get(name, {}).copy(), <<>> standing for {}
CopyOne(d, name) == IF name \in DOMAIN d THEN <<d[name]>> ELSE <<>>

\* get_all_data: {name: data.copy() for name, data in self.data.items()}
CopyAll(d) == <<[n \in DOMAIN d |-> d[n]]>>

\* ---------------------------------------------------- the lock, any thread
\* "with self._lock:" entered (threading.Lock: not reentrant, so the holder
\* itself waits like anybody else)
Acquire(t) ==
    /\ pc[t] \in {"lock", "hist_lock"}
    /\ lock = FREE
    /\ lock' = t
    /\ pc' = [pc EXCEPT ![t] = IF pc[t] = "hist_lock" THEN "hist_append"
                               ELSE IF t = Fetcher THEN "store" ELSE "read"]
    /\ df' = IF t = Fetcher THEN <<>> ELSE df
    /\ UNCHANGED <<config, stop, hist_args, appended, tickers, data,
                   price_history, time_history, idx, attempt, result, rop, ret,
                   log, seen, last_write>>

\* "with self._lock:" left by a reader, which returns to its caller
ReaderRelease(r) ==
    /\ pc[r] = "unlock"
    /\ lock = r
    /\ lock' = FREE
    /\ pc' = [pc EXCEPT ![r] = "idle"]
    /\ rop' = [rop EXCEPT ![r] = NoOp]
    /\ ret' = [ret EXCEPT ![r] = NoRet]
    /\ UNCHANGED <<config, stop, hist_args, appended, tickers, data,
                   price_history, time_history, idx, attempt, df, result, log,
                   seen, last_write>>

\* ------------------------------------------------------------- fetch_data
\* for name, ticker_code in self.tickers.items(): the next instrument, and
\* _fetch_stock_info entered with attempt = 0
BeginInstrument ==
    /\ pc[Fetcher] = "for"
    /\ idx < Len(tickers)
    /\ attempt' = 0
    \* range(MAX_RETRY_ATTEMPTS) is empty below 1: the body never runs and
    \* the function returns None at once
    /\ pc' = [pc EXCEPT ![Fetcher] =
                 IF config.MAX_RETRY_ATTEMPTS >= 1 THEN "call" ELSE "lock"]
    /\ UNCHANGED <<config, stop, hist_args, appended, tickers, data,
                   price_history, time_history, lock, idx, df,
                   result, rop, ret, log, seen, last_write>>

\* the for loop is exhausted: on to time.sleep(UPDATE_INTERVAL_SECONDS)
EndCycle ==
    /\ pc[Fetcher] = "for"
    /\ idx = Len(tickers)
    /\ pc' = [pc EXCEPT ![Fetcher] = "cycle_sleep"]
    /\ UNCHANGED <<config, stop, hist_args, appended, tickers, data,
                   price_history, time_history, lock, idx, attempt, df, result,
                   rop, ret, log, seen, last_write>>

\* time.sleep(UPDATE_INTERVAL_SECONDS), then while True again
CycleSleep ==
    /\ pc[Fetcher] = "cycle_sleep"
    /\ idx' = 0
    \* time.sleep of a negative length raises ValueError; the outer except
    \* branch sleeps the same length, raises again, and the thread ends
    /\ pc' = [pc EXCEPT ![Fetcher] =
                 IF config.UPDATE_INTERVAL_SECONDS >= 0 THEN "for" ELSE "dead"]
    /\ UNCHANGED <<config, stop, hist_args, appended, tickers, data,
                   price_history, time_history, lock, attempt, df,
                   result, rop, ret, log, seen, last_write>>

\* ------------------------------------------------------ _fetch_stock_info
\* mutant of NextAttempt: the loop allows one iteration too many
NextAttempt_OneMore(ev) ==
    /\ log' = Append(log, ev)
    /\ IF attempt + 1 <= config.MAX_RETRY_ATTEMPTS
       THEN /\ attempt' = attempt + 1
            /\ pc' = [pc EXCEPT ![Fetcher] = "call"]
            /\ UNCHANGED result
       ELSE /\ result' = <<>>
            /\ pc' = [pc EXCEPT ![Fetcher] = "lock"]
            /\ UNCHANGED attempt

\* the end of one iteration of "for attempt in range(MAX_RETRY_ATTEMPTS)" that
\* did not return: the next iteration, or "return None" after the last one
NextAttempt(ev) ==
    /\ log' = Append(log, ev)
    /\ IF attempt + 1 < config.MAX_RETRY_ATTEMPTS
       THEN /\ attempt' = attempt + 1
            /\ pc' = [pc EXCEPT ![Fetcher] = "call"]
            /\ UNCHANGED result
       ELSE /\ result' = <<>>
            /\ pc' = [pc EXCEPT ![Fetcher] = "lock"]
            /\ UNCHANGED attempt

\* mutant of Except: the sleep is not skipped after the last attempt
Except_AlwaysSleeps(ev) ==
    /\ log' = Append(log, ev)
    /\ pc' = [pc EXCEPT ![Fetcher] = "retry_sleep"]
    /\ UNCHANGED <<attempt, result>>

\* the except branch: sleep iff this was not the last attempt
Except(ev) ==
    IF attempt < config.MAX_RETRY_ATTEMPTS - 1
    THEN /\ log' = Append(log, ev)
         /\ pc' = [pc EXCEPT ![Fetcher] = "retry_sleep"]
         /\ UNCHANGED <<attempt, result>>
    ELSE NextAttempt(ev)

\* "return {...}" of a snapshot
Return(ev, snap) ==
    /\ log' = Append(log, ev)
    /\ result' = <<snap>>
    /\ pc' = [pc EXCEPT ![Fetcher] = "lock"]
    /\ UNCHANGED attempt

\* one attempt in which stock.get_market_ohlcv_by_date raises
ProviderRaises ==
    /\ pc[Fetcher] = "call"
    /\ Except("error")
    /\ seen' = [seen EXCEPT ![Cur] = Seen(@, "error")]
    /\ UNCHANGED <<config, stop, hist_args, appended, tickers, data,
                   price_history, time_history, lock, idx, df, rop, ret,
                   last_write>>

\* mutant of FetchStockInfoBody: a previous close of 0 is guarded against and
\* the attempt falls through like an empty result, without sleep
FetchStockInfoBody_ZeroNotRetried(frame) ==
    IF Len(frame) >= 2
    THEN IF frame[Len(frame) - 1] = 0
         THEN NextAttempt("two0")
         ELSE Return("two", FreshSnapshot(frame, NOW))
    ELSE IF Len(frame) = 1
         THEN Return("one", SingleSnapshot(frame, NOW))
         ELSE NextAttempt("empty")

\* what one attempt does with the frame the provider returned
FetchStockInfoBody(frame) ==
    IF Len(frame) >= 2
    THEN IF frame[Len(frame) - 1] = 0
         THEN Except("two0")      \* ZeroDivisionError in change / previous_close
         ELSE Return("two", FreshSnapshot(frame, NOW))
    ELSE IF Len(frame) = 1
         THEN Return("one", SingleSnapshot(frame, NOW))
         ELSE NextAttempt("empty")

\* one attempt in which the provider returns a frame
ProviderReturns ==
    /\ pc[Fetcher] = "call"
    /\ \E frame \in ProviderResults :
          /\ df' = IF Classify(frame) \in {"one", "two"} THEN frame ELSE <<>>
          /\ FetchStockInfoBody(frame)
          /\ seen' = [seen EXCEPT ![Cur] = Seen(@, Classify(frame))]
    /\ UNCHANGED <<config, stop, hist_args, appended, tickers, data,
                   price_history, time_history, lock, idx, rop, ret,
                   last_write>>

\* time.sleep(RETRY_DELAY_SECONDS), then the next iteration
RetrySleep ==
    /\ pc[Fetcher] = "retry_sleep"
    /\ log' = Append(log, "sleep")
    /\ attempt' = attempt + 1
    /\ pc' = [pc EXCEPT ![Fetcher] = "call"]
    /\ UNCHANGED <<config, stop, hist_args, appended, tickers, data,
                   price_history, time_history, lock, idx, df, result, rop,
                   ret, seen, last_write>>

\* ------------------------------------- fetch_data: the critical section
\* mutant of StoredFor: on None the last stored value is kept
StoredFor_KeepsLast(res) == IF Len(res) > 0 THEN res[1] ELSE data[Cur]

\* the snapshot fetch_data stores for a result
StoredFor(res) == IF Len(res) > 0 THEN res[1] ELSE NoDataSnapshot

\* whether fetch_data goes on to call self._add_to_history
AppendsHistory(res) == Len(res) > 0 /\ res[1].price_value > 0

\* mutant of Store: the assignment reaches every entry of self.data
Store_WritesAll ==
    /\ pc[Fetcher] = "store"
    /\ lock = Fetcher
    /\ data' = [n \in DOMAIN data |-> StoredFor(result)]
    /\ last_write' = [last_write EXCEPT ![Cur] = StoredFor(result)]
    /\ pc' = [pc EXCEPT ![Fetcher] =
                 IF AppendsHistory(result) THEN "hist_lock" ELSE "unlock"]
    /\ hist_args' = IF AppendsHistory(result)
                    THEN [name |-> Cur, price |-> result[1].price_value,
                          back |-> "unlock"]
                    ELSE hist_args
    /\ UNCHANGED <<config, stop, appended, tickers, price_history,
                   time_history, lock, idx, attempt, df,
                   result, rop, ret, log, seen>>

\* inside "with self._lock:": the assignment to self.data[name]; with a
\* positive price_value the call of self._add_to_history follows, which
\* begins with "with self._lock:" again
Store ==
    /\ pc[Fetcher] = "store"
    /\ lock = Fetcher
    /\ data' = StoreSnapshot(data, Cur, StoredFor(result))
    /\ last_write' = [last_write EXCEPT ![Cur] = StoredFor(result)]
    /\ pc' = [pc EXCEPT ![Fetcher] =
                 IF AppendsHistory(result) THEN "hist_lock" ELSE "unlock"]
    /\ hist_args' = IF AppendsHistory(result)
                    THEN [name |-> Cur, price |-> result[1].price_value,
                          back |-> "unlock"]
                    ELSE hist_args
    /\ UNCHANGED <<config, stop, appended, tickers, price_history,
                   time_history, lock, idx, attempt, df, result, rop, ret, log,
                   seen>>

\* mutant of FetcherRelease: the for loop moves on with the lock still held
FetcherRelease_KeepsLock ==
    /\ pc[Fetcher] = "unlock"
    /\ lock = Fetcher
    /\ idx' = idx + 1
    /\ attempt' = 0
    /\ df' = <<>>
    /\ result' = <<>>
    /\ log' = <<>>
    /\ pc' = [pc EXCEPT ![Fetcher] = "for"]
    /\ UNCHANGED <<config, stop, hist_args, appended, tickers, data,
                   price_history, time_history, lock, rop, ret, seen,
                   last_write>>

\* fetch_data leaves its "with self._lock:" and the for loop moves on; the
\* locals of the finished iteration are dead
FetcherRelease ==
    /\ pc[Fetcher] = "unlock"
    /\ lock = Fetcher
    /\ lock' = FREE
    /\ idx' = idx + 1
    /\ attempt' = 0
    /\ df' = <<>>
    /\ result' = <<>>
    /\ log' = <<>>
    /\ pc' = [pc EXCEPT ![Fetcher] = "for"]
    /\ UNCHANGED <<config, stop, hist_args, appended, tickers, data,
                   price_history, time_history, rop, ret, seen, last_write>>

\* _add_to_history inside its own "with self._lock:": both appends, the lock
\* released, back in the caller
AddToHistory ==
    /\ pc[Fetcher] = "hist_append"
    /\ lock = Fetcher
    /\ price_history' = [price_history EXCEPT
                            ![hist_args.name] = DequeAppend(@, hist_args.price)]
    /\ time_history' = [time_history EXCEPT
                           ![hist_args.name] = DequeAppend(@, NOW)]
    /\ appended' = [appended EXCEPT ![hist_args.name] = Append(@, hist_args.price)]
    /\ lock' = FREE
    /\ pc' = [pc EXCEPT ![Fetcher] = hist_args.back]
    /\ hist_args' = NoArgs
    /\ UNCHANGED <<config, stop, tickers, data, idx, attempt, df, result, rop,
                   ret, log, seen, last_write>>

\* ---------------------------------------------------------------- readers
\* a consumer calls get_data(name), get_all_data() or get_price_history(name)
ReaderCall(r) ==
    /\ pc[r] = "idle"
    /\ \E op \in ReadOps, name \in Names \cup {Unknown} :
          /\ (op = "get_all_data") => (name = Unknown)
          /\ rop' = [rop EXCEPT ![r] = [op |-> op, name |-> name]]
    /\ pc' = [pc EXCEPT ![r] = "lock"]
    /\ UNCHANGED <<config, stop, hist_args, appended, tickers, data,
                   price_history, time_history, lock, idx, attempt, df, result,
                   ret, log, seen, last_write>>

\* the value the read operation op(name) returns in the store's present state
ReadValue(op, name) ==
    [op |-> op, name |-> name,
     one |-> IF op = "get_data" THEN CopyOne(data, name) ELSE <<>>,
     all |-> IF op = "get_all_data" THEN CopyAll(data) ELSE <<>>,
     times |-> IF op = "get_price_history" /\ name \in DOMAIN time_history
                      /\ name \in DOMAIN price_history
               THEN time_history[name] ELSE <<>>,
     prices |-> IF op = "get_price_history" /\ name \in DOMAIN time_history
                       /\ name \in DOMAIN price_history
                THEN price_history[name] ELSE <<>>]

\* the body of the reader's "with self._lock:": the copy it will return
ReaderRead(r) ==
    /\ pc[r] = "read"
    /\ lock = r
    /\ ret' = [ret EXCEPT ![r] = ReadValue(rop[r].op, rop[r].name)]
    /\ pc' = [pc EXCEPT ![r] = "unlock"]
    /\ UNCHANGED <<config, stop, hist_args, appended, tickers, data,
                   price_history, time_history, lock, idx, attempt, df, result,
                   rop, log, seen, last_write>>

\* --------------------------------------------------------- specifications
FetcherStep ==
    \/ BeginInstrument
    \/ EndCycle
    \/ CycleSleep
    \/ ProviderRaises
    \/ ProviderReturns
    \/ RetrySleep
    \/ Store
    \/ FetcherRelease

Next ==
    \/ BeginInstrument
    \/ EndCycle
    \/ CycleSleep
    \/ ProviderRaises
    \/ ProviderReturns
    \/ RetrySleep
    \/ Store
    \/ FetcherRelease
    \/ \E t \in Threads : Acquire(t)
    \/ \E r \in Readers : ReaderCall(r)
    \/ \E r \in Readers : ReaderRead(r)
    \/ \E r \in Readers : ReaderRelease(r)

\* the program as main() runs it
Spec == Init /\ [][Next]_vars

\* the same under a fair scheduler: every thread that can run does run, and a
\* thread waiting for the lock gets it if the lock keeps becoming free
FairSpec ==
    /\ Spec
    /\ WF_vars(FetcherStep)
    /\ \A t \in Threads : SF_vars(Acquire(t))
    /\ \A r \in Readers : WF_vars(ReaderRead(r)) /\ WF_vars(ReaderRelease(r))

\* ------------------------------------------- main(): configuration and exit
RangeOf(q) == {q[i] : i \in 1..Len(q)}

\* Config(...) as a caller may build it: the dataclass accepts any values
Configs ==
    [MAX_RETRY_ATTEMPTS : {0, MAX_RETRY_ATTEMPTS},
     UPDATE_INTERVAL_SECONDS : {0 - 1, 0, UPDATE_INTERVAL_SECONDS}]

TickerChoices == {<<>>, <<"A", "B">>}

\* the configuration main() would have to reject
ValidConfig ==
    /\ Len(tickers) > 0
    /\ config.UPDATE_INTERVAL_SECONDS > 0
    /\ config.MAX_RETRY_ATTEMPTS >= 1

\* StockData(config) with any configuration, the fetch thread started
MainInit ==
    /\ config \in Configs
    /\ stop = "running"
    /\ hist_args = NoArgs
    /\ tickers \in TickerChoices
    /\ appended = [n \in RangeOf(tickers) |-> <<>>]
    /\ data = [n \in RangeOf(tickers) |-> InitSnapshot]
    /\ price_history = [n \in RangeOf(tickers) |-> <<>>]
    /\ time_history = [n \in RangeOf(tickers) |-> <<>>]
    /\ lock = FREE
    /\ pc = [t \in Threads |-> IF t = Fetcher THEN "for" ELSE "idle"]
    /\ idx = 0
    /\ attempt = 0
    /\ df = <<>>
    /\ result = <<>>
    /\ rop = [r \in Readers |-> NoOp]
    /\ ret = [r \in Readers |-> NoRet]
    /\ log = <<>>
    /\ seen = [n \in RangeOf(tickers) |-> "none"]
    /\ last_write = [n \in RangeOf(tickers) |-> InitSnapshot]

\* SIGINT is delivered to the process; the handler runs later, in the main
\* thread
Sigint ==
    /\ stop = "running"
    /\ stop' = "signalled"
    /\ UNCHANGED <<config, hist_args, appended, tickers, data, price_history,
                   time_history, lock, pc, idx, attempt, df, result, rop, ret,
                   log, seen, last_write>>

\* mutant of HandleSigint: the fetch thread is not a daemon and outlives the
\* main thread
HandleSigint_MainOnly ==
    /\ stop = "signalled"
    /\ stop' = "exited"
    /\ pc' = [t \in Threads |-> IF t = Fetcher THEN pc[t] ELSE "dead"]
    /\ UNCHANGED <<config, hist_args, appended, tickers, data, price_history,
                   time_history, lock, idx, attempt, df, result, rop, ret,
                   log, seen, last_write>>

\* handle_sigint: sys.exit(0); the process ends and the daemon fetch thread
\* with it, wherever it is
HandleSigint ==
    /\ stop = "signalled"
    /\ stop' = "exited"
    /\ pc' = [t \in Threads |-> "dead"]
    /\ UNCHANGED <<config, hist_args, appended, tickers, data, price_history,
                   time_history, lock, idx, attempt, df, result, rop, ret,
                   log, seen, last_write>>

MainNext ==
    \/ BeginInstrument
    \/ EndCycle
    \/ CycleSleep
    \/ ProviderRaises
    \/ ProviderReturns
    \/ RetrySleep
    \/ Store
    \/ FetcherRelease
    \/ Acquire(Fetcher)
    \/ Sigint
    \/ HandleSigint

\* main() with any configuration and an interrupt at any moment, the
\* consumers left out
MainSpec == MainInit /\ [][MainNext]_vars

\* ------------------------------------------- _add_to_history called directly
\* histories one short of full, as HISTORY_MAXLEN - 1 appends leave them
NearlyFull ==
    {[i \in 1..(HISTORY_MAXLEN - 1) |-> 1 + ((i + k) % MaxPrice)] :
        k \in 0..(MaxPrice - 1)}

\* a store whose first instrument has a nearly full history and whose lock
\* is free; the fetch loop is not running
HistInit ==
    /\ config = DefaultConfig
    /\ stop = "running"
    /\ hist_args = NoArgs
    /\ tickers \in Orders
    /\ \E h \in NearlyFull :
          price_history = [n \in Names |-> IF n = tickers[1] THEN h ELSE <<>>]
    /\ time_history = [n \in Names |->
                          [i \in 1..Len(price_history[n]) |-> NOW]]
    /\ appended = price_history
    /\ data = [n \in Names |-> InitSnapshot]
    /\ lock = FREE
    /\ pc = [t \in Threads |-> IF t = Fetcher THEN "hist_idle" ELSE "idle"]
    /\ idx = 0
    /\ attempt = 0
    /\ df = <<>>
    /\ result = <<>>
    /\ rop = [r \in Readers |-> NoOp]
    /\ ret = [r \in Readers |-> NoRet]
    /\ log = <<>>
    /\ seen = [n \in Names |-> "none"]
    /\ last_write = [n \in Names |-> InitSnapshot]

TotalAppended == Len(appended[tickers[1]]) + Len(appended[tickers[2]])

\* self._add_to_history(name, price) called with the lock free
HistCall ==
    /\ pc[Fetcher] = "hist_idle"
    /\ TotalAppended < (HISTORY_MAXLEN - 1) + MaxAppends
    /\ \E n \in Names, p \in 1..MaxPrice :
          hist_args' = [name |-> n, price |-> p, back |-> "hist_idle"]
    /\ pc' = [pc EXCEPT ![Fetcher] = "hist_lock"]
    /\ UNCHANGED <<config, stop, appended, tickers, data, price_history,
                   time_history, lock, idx, attempt, df, result, rop, ret,
                   log, seen, last_write>>

HistNext ==
    \/ HistCall
    \/ AddToHistory
    \/ \E t \in Threads : Acquire(t)
    \/ \E r \in Readers : ReaderCall(r)
    \/ \E r \in Readers : ReaderRead(r)
    \/ \E r \in Readers : ReaderRelease(r)

\* the history buffers driven through _add_to_history and read through
\* get_price_history
HistSpec == HistInit /\ [][HistNext]_vars

\* ------------------------------------------- the values the readers return
\* mutant of Shares: the read operations hand out the store's own objects
Shares_Reference(op) == TRUE

\* whether the object the read operation op returns is an object of the store
\* itself: never, get_data returns a .copy() of the entry, get_all_data a new
\* dict of .copy()s, get_price_history a list(...) of each deque
Shares(op) == FALSE

\* the caller writes into a snapshot dict it was given
Scribble(s) == [s EXCEPT !.color = "caller"]

\* the caller writes into every snapshot it was given and clears the lists
ModifiedRet(v) ==
    [v EXCEPT !.one = [i \in 1..Len(@) |-> Scribble(@[i])],
              !.all = [i \in 1..Len(@) |->
                          [n \in DOMAIN @[i] |-> Scribble(@[i][n])]],
              !.times = <<>>,
              !.prices = <<>>]

\* what the caller sees in the value that read operation returned to it
Held(r) ==
    IF Shares(ret[r].op) THEN ReadValue(ret[r].op, ret[r].name) ELSE ret[r]

\* "with self._lock:" left by a reader; the caller keeps the returned value
ReaderReturn(r) ==
    /\ pc[r] = "unlock"
    /\ lock = r
    /\ lock' = FREE
    /\ pc' = [pc EXCEPT ![r] = "holding"]
    /\ UNCHANGED <<config, stop, hist_args, appended, tickers, data,
                   price_history, time_history, idx, attempt, df, result, rop,
                   ret, log, seen, last_write>>

\* the caller modifies the value it was given, holding no lock
CallerModify(r) ==
    /\ pc[r] = "holding"
    /\ IF Shares(ret[r].op)
       THEN /\ data' =
                 IF ret[r].op = "get_data" /\ ret[r].name \in DOMAIN data
                 THEN [data EXCEPT ![ret[r].name] = Scribble(@)]
                 ELSE IF ret[r].op = "get_all_data"
                      THEN [n \in DOMAIN data |-> Scribble(data[n])]
                      ELSE data
            /\ price_history' =
                 IF ret[r].op = "get_price_history"
                       /\ ret[r].name \in DOMAIN price_history
                 THEN [price_history EXCEPT ![ret[r].name] = <<>>]
                 ELSE price_history
            /\ time_history' =
                 IF ret[r].op = "get_price_history"
                       /\ ret[r].name \in DOMAIN time_history
                 THEN [time_history EXCEPT ![ret[r].name] = <<>>]
                 ELSE time_history
            /\ UNCHANGED ret
       ELSE /\ ret' = [ret EXCEPT ![r] = ModifiedRet(@)]
            /\ UNCHANGED <<data, price_history, time_history>>
    /\ UNCHANGED <<config, stop, hist_args, appended, tickers, lock, pc, idx,
                   attempt, df, result, rop, log, seen, last_write>>

\* the caller lets go of the value
CallerDrop(r) ==
    /\ pc[r] = "holding"
    /\ pc' = [pc EXCEPT ![r] = "idle"]
    /\ rop' = [rop EXCEPT ![r] = NoOp]
    /\ ret' = [ret EXCEPT ![r] = NoRet]
    /\ UNCHANGED <<config, stop, hist_args, appended, tickers, data,
                   price_history, time_history, lock, idx, attempt, df,
                   result, log, seen, last_write>>

\* Config(MAX_RETRY_ATTEMPTS=1): one attempt per instrument and cycle
OneAttemptConfig == [DefaultConfig EXCEPT !.MAX_RETRY_ATTEMPTS = 1]

\* the store with its fetch loop running under OneAttemptConfig, or with
\* _add_to_history called directly on nearly full histories
ReadInit ==
    \/ /\ config = OneAttemptConfig
       /\ stop = "running"
       /\ hist_args = NoArgs
       /\ appended = [n \in Names |-> <<>>]
       /\ tickers \in Orders
       /\ data = [n \in Names |-> InitSnapshot]
       /\ price_history = [n \in Names |-> <<>>]
       /\ time_history = [n \in Names |-> <<>>]
       /\ lock = FREE
       /\ pc = [t \in Threads |-> IF t = Fetcher THEN "for" ELSE "idle"]
       /\ idx = 0
       /\ attempt = 0
       /\ df = <<>>
       /\ result = <<>>
       /\ rop = [r \in Readers |-> NoOp]
       /\ ret = [r \in Readers |-> NoRet]
       /\ log = <<>>
       /\ seen = [n \in Names |-> "none"]
       /\ last_write = [n \in Names |-> InitSnapshot]
    \/ HistInit

\* (with one attempt per instrument there is no retry sleep)
ReadNext ==
    \/ BeginInstrument
    \/ EndCycle
    \/ CycleSleep
    \/ ProviderRaises
    \/ ProviderReturns
    \/ Store
    \/ FetcherRelease
    \/ HistCall
    \/ AddToHistory
    \/ \E t \in Threads : Acquire(t)
    \/ \E r \in Readers : ReaderCall(r)
    \/ \E r \in Readers : ReaderRead(r)
    \/ \E r \in Readers : ReaderReturn(r)
    \/ \E r \in Readers : CallerModify(r)
    \/ \E r \in Readers : CallerDrop(r)

\* the store and a consumer that keeps, and may modify, what it has read
ReadSpec == ReadInit /\ [][ReadNext]_vars

TypeOK ==
    /\ tickers \in Orders
    /\ DOMAIN data = Names
    /\ lock \in {FREE} \cup Threads
    /\ idx \in 0..Len(tickers)
    /\ attempt \in 0..(MAX_RETRY_ATTEMPTS - 1)
    /\ Len(result) <= 1

\* ------------------------------------------------ reading a snapshot
\* the status a consumer reads off a snapshot
Status(s) ==
    IF s.price.kind = "loading" THEN "Loading"
    ELSE IF s.price.kind = "no_data" THEN "NoData"
    ELSE IF s.change.kind = "delta" THEN "Fresh"
    ELSE "NoDataWithPrice"

\* the trend a consumer reads off the color
Trend(s) ==
    IF s.color = "red" THEN "Up"
    ELSE IF s.color = "blue" THEN "Down"
    ELSE IF s.color = "black" THEN "Flat"
    ELSE "Unknown"

ChangeAbsent(s) == s.change.kind # "delta"

TrendConsistent(s) ==
    /\ (Trend(s) = "Up") <=> (~ChangeAbsent(s) /\ s.change.abs > 0)
    /\ (Trend(s) = "Down") <=> (~ChangeAbsent(s) /\ s.change.abs < 0)
    /\ (Trend(s) = "Flat") <=> (~ChangeAbsent(s) /\ s.change.abs = 0)
    /\ (Trend(s) = "Unknown") <=> ChangeAbsent(s)

Last(q) == q[Len(q)]

\* a reader is inside a read operation and has not got the lock yet
Waiting(r) == pc[r] = "lock"

\* ------------------------------------------------------------------ claims

\* C1: every call of get_data, get_all_data and get_price_history eventually
\* acquires the store lock and returns, whatever the provider returns.
C1_ReadersReturn ==
    \A r \in Readers : Waiting(r) ~> (pc[r] = "idle")

\* C2: when a fetch yields a snapshot with price > 0, the write completes: the
\* snapshot is stored, the price is the newest point of the instrument's
\* history and the lock is released.
C2_WriteCompletes ==
    \A n \in Names, p \in 1..MaxPrice :
        (/\ pc[Fetcher] = "store"
         /\ Cur = n
         /\ Len(result) = 1
         /\ result[1].price_value = p)
        ~> (/\ lock # Fetcher
            /\ Len(price_history[n]) > 0
            /\ Last(price_history[n]) = p)

\* C3: the polling loop never stops making progress: the Fetcher reaches the
\* inter-cycle sleep again and again, whatever the provider returns.
C3_LoopProgress == []<>(pc[Fetcher] = "cycle_sleep")

\* C4: if every provider call for A raises and every provider call for B
\* returns two or more sessions, a reader calling get_data(B) obtains B's
\* Fresh snapshot within the poll cycle, whichever of A and B comes first.
C4_Scenario == seen["A"] \in {"none", "error"} /\ seen["B"] = "two"

C4_Isolation ==
    \A r \in Readers :
        (/\ C4_Scenario
         /\ Status(data["B"]) = "Fresh"
         /\ Waiting(r)
         /\ rop[r] = [op |-> "get_data", name |-> "B"])
        ~> (\/ ~C4_Scenario
            \/ /\ pc[r] = "unlock"
               /\ Len(ret[r].one) = 1
               /\ Status(ret[r].one[1]) = "Fresh")

\* C5: in every reachable state every stored snapshot has a trend consistent
\* with its change: Up iff change > 0, Down iff change < 0, Flat iff
\* change = 0, Unknown exactly when the change is absent.
C5_TrendConsistent == \A n \in Names : TrendConsistent(data[n])

\* the snapshots a reader holds in the copy it is about to return
Obtained(r) ==
    IF ret[r].op = "get_data" THEN {ret[r].one[i] : i \in 1..Len(ret[r].one)}
    ELSE IF ret[r].op = "get_all_data" THEN {ret[r].all[1][n] : n \in Names}
    ELSE {}

\* C6: no torn reads: every snapshot a reader obtains is, in all its fields
\* together, the initial snapshot or the snapshot of one single write (the one
\* value handed to the latest write of that instrument), and so, unless it is
\* the initial one, has a trend consistent with the change of that write.
C6_NoTornReads ==
    \A r \in Readers :
        (pc[r] = "unlock") =>
            /\ (ret[r].op = "get_data" /\ ret[r].name \in Names)
                   => ret[r].one = <<last_write[ret[r].name]>>
            /\ (ret[r].op = "get_all_data")
                   => /\ Len(ret[r].all) = 1
                      /\ DOMAIN ret[r].all[1] = Names
                      /\ \A n \in Names : ret[r].all[1][n] = last_write[n]
            /\ \A s \in Obtained(r) : s = InitSnapshot \/ TrendConsistent(s)

\* a reader has obtained, with get_data, a snapshot written from a fetch result
C6_Witness ==
    \E r \in Readers :
        /\ pc[r] = "unlock"
        /\ ret[r].op = "get_data"
        /\ Len(ret[r].one) = 1
        /\ Status(ret[r].one[1]) = "Fresh"
        /\ Trend(ret[r].one[1]) = "Down"

\* C7 (as amended): for every provider result with two or more sessions whose
\* previous close is not 0, the snapshot _fetch_stock_info returns has
\* price = latest, change = latest - previous, changePercent = change /
\* previous * 100 (to the two printed decimals), the trend of the sign of the
\* change, a last-update time and status Fresh.
C7_FreshSnapshot ==
    (pc[Fetcher] = "lock" /\ Len(df) >= 2 /\ df[Len(df) - 1] # 0) =>
        /\ Len(result) = 1
        /\ LET previous == df[Len(df) - 1]
               latest == df[Len(df)]
               s == result[1]
           IN  /\ s.price = [kind |-> "won", n |-> latest]
               /\ s.price_value = latest
               /\ s.change.kind = "delta"
               /\ s.change.abs = latest - previous
               /\ 2 * Abs(s.change.pct * previous - (latest - previous) * 10000)
                      <= Abs(previous)
               /\ Trend(s) = (IF latest > previous THEN "Up"
                              ELSE IF latest < previous THEN "Down" ELSE "Flat")
               /\ s.last_update # NONE
               /\ Status(s) = "Fresh"

\* the three cases of the claim's example, scaled to the prices of the model:
\* a rise from 1 to 2 has been returned (change +1, +100.00%, Up)
C7_Witness ==
    /\ pc[Fetcher] = "lock"
    /\ df = <<1, 2>>
    /\ Len(result) = 1
    /\ result[1].change = [kind |-> "delta", abs |-> 1, pct |-> 10000]
    /\ result[1].color = "red"

\* C7 as it was stated: every provider result with two or more sessions makes
\* _fetch_stock_info return a Fresh snapshot on that attempt.
C7_EveryTwoSessionResult ==
    (log # <<>> /\ Last(log) \in {"two", "two0"}) =>
        /\ pc[Fetcher] \in {"lock", "store", "hist_lock", "unlock"}
        /\ Len(result) = 1
        /\ Status(result[1]) = "Fresh"

\* the run of _fetch_stock_info so far made at least one provider call and
\* every one of them raised
AllRaised == log # <<>> /\ \A i \in 1..Len(log) : log[i] \in {"error", "sleep"}

\* C8: when every provider attempt of an instrument in a cycle raises, the
\* provider is called exactly MAX_RETRY_ATTEMPTS times with one sleep between
\* consecutive attempts and none after the last, and the instrument ends the
\* cycle in the no-data snapshot.
C8_RetryExhaustion ==
    AllRaised =>
        /\ \A i \in 1..Len(log) :
               log[i] = (IF i % 2 = 1 THEN "error" ELSE "sleep")
        /\ Len(log) <= 2 * MAX_RETRY_ATTEMPTS - 1
        /\ (pc[Fetcher] \in {"lock", "store", "unlock", "hist_lock"})
               => (Len(log) = 2 * MAX_RETRY_ATTEMPTS - 1 /\ result = <<>>)
        /\ (pc[Fetcher] = "unlock") => (data[Cur] = NoDataSnapshot)
        /\ pc[Fetcher] # "hist_lock"

\* all attempts of an instrument raised and its no-data snapshot is stored
C8_Witness ==
    /\ pc[Fetcher] = "unlock"
    /\ AllRaised
    /\ Len(log) = 2 * MAX_RETRY_ATTEMPTS - 1
    /\ data[Cur] = NoDataSnapshot

\* C9: when the provider returns an empty result for an instrument, the
\* snapshot stored for it in that cycle is the no-data snapshot (absent price,
\* price_value 0, no last-update time), and no retry sleep follows the empty
\* result.
C9_EmptyGivesNoData ==
    (\E i \in 1..Len(log) : log[i] = "empty") =>
        /\ (pc[Fetcher] \in {"unlock", "hist_lock"})
               => (data[Cur] = NoDataSnapshot)
        /\ \A i \in 1..(Len(log) - 1) :
               (log[i] = "empty") => (log[i + 1] # "sleep")

\* C10: an empty provider result is not retried: it ends the retry loop, so
\* nothing follows it in the run (no further provider call, no sleep) and
\* _fetch_stock_info has returned None.
C10_EmptyNotRetried ==
    \A i \in 1..Len(log) :
        (log[i] = "empty") =>
            /\ i = Len(log)
            /\ pc[Fetcher] \in {"lock", "store", "unlock"}
            /\ result = <<>>

\* every attempt of the run returned an empty frame
AllEmpty == log # <<>> /\ \A i \in 1..Len(log) : log[i] = "empty"

\* C11: the stored snapshot tells the three outcomes apart: the snapshot
\* stored for an instrument whose attempts all returned an empty result differs
\* (in itself and in its status) from the snapshot stored for an instrument
\* whose attempts all raised, and neither reads as Fresh.
C11_StatusDistinguishes ==
    \A n \in Names, m \in Names :
        (/\ pc[Fetcher] = "unlock"
         /\ Cur = n
         /\ AllEmpty
         /\ seen[m] = "error"
         /\ data[m] # InitSnapshot)
        => /\ data[n] # data[m]
           /\ Status(data[n]) # Status(data[m])
           /\ Status(data[n]) # "Fresh"
           /\ Status(data[m]) # "Fresh"

\* C12: a provider result of exactly one session of close p yields, on that
\* very attempt, the snapshot with price p, no change, trend Unknown (gray), a
\* last-update time and the status NoData-with-price; no provider call and no
\* sleep follows it in the run.
C12_SingleSession ==
    /\ (pc[Fetcher] = "lock" /\ Len(df) = 1) =>
           /\ Len(result) = 1
           /\ result[1].price = [kind |-> "won", n |-> df[1]]
           /\ result[1].price_value = df[1]
           /\ ChangeAbsent(result[1])
           /\ Trend(result[1]) = "Unknown"
           /\ result[1].last_update # NONE
           /\ Status(result[1]) = "NoDataWithPrice"
           /\ Last(log) = "one"
    /\ \A i \in 1..Len(log) :
           (log[i] = "one") =>
               /\ i = Len(log)
               /\ pc[Fetcher] \in {"lock", "store", "hist_lock", "unlock"}
               /\ Len(result) = 1

\* a lone session with a positive close has just been returned, after an
\* earlier attempt of the same run failed
C12_Witness ==
    /\ pc[Fetcher] = "lock"
    /\ Len(df) = 1
    /\ df[1] > 0
    /\ Len(log) > 1
    /\ Len(result) = 1
    /\ result[1].color = "gray"

\* the last n elements of q, all of q if it has no more than n
LastN(q, n) == IF Len(q) <= n THEN q ELSE SubSeq(q, Len(q) - n + 1, Len(q))

\* C13: the history is a bounded FIFO of capacity HISTORY_MAXLEN: it never
\* holds more than HISTORY_MAXLEN points, it is, in insertion order, the last
\* HISTORY_MAXLEN prices appended through _add_to_history (all of them while
\* they are fewer), with as many times as prices, and that is what
\* get_price_history returns.
C13_BoundedFIFO ==
    /\ \A n \in Names :
           /\ Len(price_history[n]) <= HISTORY_MAXLEN
           /\ Len(time_history[n]) = Len(price_history[n])
           /\ price_history[n] = LastN(appended[n], HISTORY_MAXLEN)
    /\ \A r \in Readers :
           (/\ pc[r] = "unlock"
            /\ ret[r].op = "get_price_history"
            /\ ret[r].name \in Names)
           => /\ ret[r].prices = LastN(appended[ret[r].name], HISTORY_MAXLEN)
              /\ Len(ret[r].prices) <= HISTORY_MAXLEN
              /\ Len(ret[r].times) = Len(ret[r].prices)

\* get_price_history has returned the history of an instrument that has had
\* more than HISTORY_MAXLEN appends, the last one evicting a different price
C13_Witness ==
    \E r \in Readers :
        /\ pc[r] = "unlock"
        /\ ret[r].op = "get_price_history"
        /\ ret[r].name \in Names
        /\ Len(appended[ret[r].name]) > HISTORY_MAXLEN
        /\ Len(ret[r].prices) = HISTORY_MAXLEN
        /\ appended[ret[r].name][1] # ret[r].prices[1]

C16_InvalidConfigFailsFast ==
    (~ValidConfig) =>
        /\ pc[Fetcher] \in {"for", "dead"}
        /\ idx = 0
        /\ log = <<>>
        /\ \A n \in RangeOf(tickers) :
               data[n] = InitSnapshot /\ seen[n] = "none"

\* no fetch result has been written for n yet
NotYetWritten(n) == last_write[n].price.kind = "loading"

\* C17: before the first fetch result of an instrument is written, get_data
\* returns for it the Loading snapshot, with absent price, price_value 0 and
\* no last-update time, and get_price_history returns two empty sequences.
C17_LoadingBeforeFirstWrite ==
    \A r \in Readers :
        (/\ pc[r] = "unlock"
         /\ ret[r].name \in Names
         /\ NotYetWritten(ret[r].name))
        => /\ (ret[r].op = "get_data") =>
                  /\ Len(ret[r].one) = 1
                  /\ Status(ret[r].one[1]) = "Loading"
                  /\ ret[r].one[1].price_value = 0
                  /\ ret[r].one[1].last_update = NONE
           /\ (ret[r].op = "get_price_history") =>
                  /\ ret[r].times = <<>>
                  /\ ret[r].prices = <<>>

\* get_data has returned for an instrument not yet written, after the other
\* instrument has had its first write
C17_Witness ==
    \E r \in Readers :
        /\ pc[r] = "unlock"
        /\ ret[r].op = "get_data"
        /\ ret[r].name \in Names
        /\ NotYetWritten(ret[r].name)
        /\ \E m \in Names : ~NotYetWritten(m)

\* C18: the write that follows retry exhaustion overwrites a Fresh snapshot
\* with the no-data one (absent price, price_value 0, absent change, no
\* last-update time), and the write of a two-session result over a no-data
\* snapshot makes it Fresh again.
C18_ExhaustionOverwrites ==
    [][(pc[Fetcher] = "store" /\ pc'[Fetcher] # "store") =>
          /\ (Status(data[Cur]) = "Fresh" /\ result = <<>>) =>
                 /\ Status(data'[Cur]) = "NoData"
                 /\ data'[Cur].price_value = 0
                 /\ ChangeAbsent(data'[Cur])
                 /\ data'[Cur].last_update = NONE
          /\ (/\ Status(data[Cur]) = "NoData"
              /\ Len(result) = 1
              /\ Status(result[1]) = "Fresh") =>
                 /\ Status(data'[Cur]) = "Fresh"
                 /\ data'[Cur] = result[1]]_vars

\* every attempt for an instrument that holds a Fresh snapshot has raised, and
\* the Fetcher is at the write
C18_Witness ==
    /\ pc[Fetcher] = "store"
    /\ Status(data[Cur]) = "Fresh"
    /\ AllRaised
    /\ result = <<>>

\* C19: while the Fetcher is inside a provider call, a retry sleep or the
\* inter-cycle sleep it does not hold the store lock.
C19_NoLockAcrossIO ==
    (pc[Fetcher] \in {"call", "retry_sleep", "cycle_sleep"})
        => (lock # Fetcher)

\* a reader holds the lock and has read while the Fetcher, with one write
\* behind it, is in a retry sleep
C19_Witness ==
    /\ pc[Fetcher] = "retry_sleep"
    /\ \E r \in Readers : lock = r /\ pc[r] = "unlock"
    /\ \E m \in Names : ~NotYetWritten(m)

\* C20: the store always holds exactly the configured instruments, and a step
\* changes the snapshot of an instrument only if it is the write for that
\* instrument, and its history only if it is the append for that instrument.
C20_Independence ==
    /\ [](/\ DOMAIN data = Names
          /\ DOMAIN price_history = Names
          /\ DOMAIN time_history = Names)
    /\ [][\A n \in Names :
             /\ (data'[n] # data[n]) =>
                    (pc[Fetcher] = "store" /\ n = Cur)
             /\ (price_history'[n] # price_history[n]
                    \/ time_history'[n] # time_history[n]) =>
                    (pc[Fetcher] = "hist_append" /\ n = hist_args.name)]_vars

\* the write for one instrument is done and the other instrument still holds
\* the different snapshot written for it earlier
C20_Witness ==
    /\ pc[Fetcher] = "unlock"
    /\ ~NotYetWritten(Cur)
    /\ \E m \in Names :
          /\ m # Cur
          /\ ~NotYetWritten(m)
          /\ data[m] # data[Cur]
          /\ data[m] = last_write[m]

\* C22: a read of a name that is not a configured instrument reports absence:
\* get_data returns the empty dict, get_price_history two empty sequences, and
\* the store holds entries for the configured instruments only.
C22_UnknownName ==
    /\ \A r \in Readers :
           (pc[r] = "unlock" /\ ret[r].name = Unknown) =>
               /\ (ret[r].op = "get_data") => (ret[r].one = <<>>)
               /\ (ret[r].op = "get_price_history") =>
                      (ret[r].times = <<>> /\ ret[r].prices = <<>>)
    /\ Unknown \notin DOMAIN data
    /\ Unknown \notin DOMAIN price_history
    /\ Unknown \notin DOMAIN time_history

\* get_data of an unknown name has returned, the store already holding a
\* written snapshot
C22_Witness ==
    \E r \in Readers :
        /\ pc[r] = "unlock"
        /\ ret[r].op = "get_data"
        /\ ret[r].name = Unknown
        /\ ret[r].one = <<>>
        /\ \E m \in Names : ~NotYetWritten(m)

\* C23: no thread ever waits for the store lock while holding it itself; in
\* particular the Fetcher, inside fetch_data's critical section, does not
\* wait for the lock in _add_to_history.
C23_NoSelfDeadlock ==
    \A t \in Threads : ~(pc[t] \in {"lock", "hist_lock"} /\ lock = t)

\* every attempt of the run returned two or more sessions with previous close 0
AllZeroPrevious ==
    log # <<>> /\ \A i \in 1..Len(log) : log[i] \in {"two0", "sleep"}

\* C26: a result of two or more sessions whose previous close is 0 is handled
\* as an error: it yields no snapshot, the retry sleep follows it unless it
\* was the last allowed attempt, and when every attempt returns such a result
\* there are MAX_RETRY_ATTEMPTS attempts, the no-data snapshot is stored, no
\* history append is called, and the Fetcher goes on.
C26_ZeroPreviousClose ==
    /\ \A i \in 1..Len(log) :
           (log[i] = "two0") =>
               /\ (i < Len(log)) => (log[i + 1] = "sleep")
               /\ (i = Len(log)) =>
                      /\ pc[Fetcher] \in {"retry_sleep", "lock", "store", "unlock"}
                      /\ result = <<>>
    /\ AllZeroPrevious =>
           /\ \A i \in 1..Len(log) :
                  log[i] = (IF i % 2 = 1 THEN "two0" ELSE "sleep")
           /\ Len(log) <= 2 * MAX_RETRY_ATTEMPTS - 1
           /\ (pc[Fetcher] \in {"lock", "store", "unlock"})
                  => (Len(log) = 2 * MAX_RETRY_ATTEMPTS - 1)
           /\ (pc[Fetcher] = "retry_sleep")
                  => (Len(log) < 2 * MAX_RETRY_ATTEMPTS - 1)
           /\ (pc[Fetcher] = "unlock") =>
                  /\ data[Cur] = NoDataSnapshot
                  /\ price_history[Cur] = LastN(appended[Cur], HISTORY_MAXLEN)
           /\ pc[Fetcher] \notin {"hist_lock", "hist_append", "dead"}

\* every attempt for an instrument returned a previous close of 0 and its
\* no-data snapshot is stored
C26_Witness ==
    /\ pc[Fetcher] = "unlock"
    /\ AllZeroPrevious
    /\ Len(log) = 2 * MAX_RETRY_ATTEMPTS - 1
    /\ data[Cur] = NoDataSnapshot

\* the provider calls among the events of a run
IsAttempt(e) == e # "sleep"

Attempts(l) == Len(SelectSeq(l, IsAttempt))

\* the retry loop, given which attempt outcomes end it with a snapshot (usable)
\* and which are followed by the retry sleep (failing): a usable outcome is
\* the last event of its run and leaves a snapshot; there are never more than
\* MAX_RETRY_ATTEMPTS attempts; a sleep follows exactly the failing attempts
\* that were not the last allowed one; the loop is left either on a usable
\* outcome or after MAX_RETRY_ATTEMPTS attempts with None; and what is then
\* stored is that snapshot, or the no-data snapshot.
RetryLoopOK(usable, failing) ==
    /\ Attempts(log) <= MAX_RETRY_ATTEMPTS
    /\ \A i \in 1..Len(log) :
           /\ (log[i] \in usable) =>
                  /\ i = Len(log)
                  /\ pc[Fetcher] \in {"lock", "store", "hist_lock", "unlock"}
                  /\ Len(result) = 1
           /\ (log[i] = "sleep") => (i > 1 /\ log[i - 1] \in failing)
           /\ (log[i] \in failing
                  /\ Attempts(SubSeq(log, 1, i)) < MAX_RETRY_ATTEMPTS) =>
                  /\ (i < Len(log)) => (log[i + 1] = "sleep")
                  /\ (i = Len(log)) => (pc[Fetcher] = "retry_sleep")
           /\ (log[i] \notin failing /\ i < Len(log)) => (log[i + 1] # "sleep")
    /\ (pc[Fetcher] \in {"lock", "store", "hist_lock", "unlock"}) =>
           /\ log # <<>>
           /\ \/ Last(log) \in usable /\ Len(result) = 1
              \/ /\ Last(log) \notin usable
                 /\ Attempts(log) = MAX_RETRY_ATTEMPTS
                 /\ result = <<>>
    /\ (pc[Fetcher] = "lock" /\ Len(df) >= 1) =>
           (result = <<IF Len(df) = 1 THEN SingleSnapshot(df, NOW)
                       ELSE FreshSnapshot(df, NOW)>>)
    /\ (pc[Fetcher] \in {"hist_lock", "unlock"}) =>
           (data[Cur] = IF Len(result) = 1 THEN result[1] ELSE NoDataSnapshot)

\* C25 as claimed: the loop ends at the first attempt that returns at least
\* one session, and only an attempt that raised in the provider is followed
\* by the retry sleep.
C25_FirstResultWithSessions ==
    RetryLoopOK({"one", "two", "two0"}, {"error"})

\* C25 (as amended): the loop ends at the first attempt that returns one
\* session, or two or more sessions with a previous close other than 0, or
\* after MAX_RETRY_ATTEMPTS attempts; the retry sleep follows exactly the
\* attempts that raised, in the provider or on a previous close of 0, and
\* were not the last allowed one; the snapshot stored is that of the first
\* such result, or the no-data snapshot when there is none.
C25_RetryLoop ==
    RetryLoopOK({"one", "two"}, {"error", "two0"})

\* an error, its sleep, an empty result, and the third attempt's snapshot is
\* stored
C25_Witness ==
    /\ pc[Fetcher] = "unlock"
    /\ Len(log) = 4
    /\ log[1] = "error"
    /\ log[2] = "sleep"
    /\ log[3] = "empty"
    /\ log[4] \in {"one", "two"}
    /\ data[Cur] = result[1]

Store_State == <<data, price_history, time_history>>

====
